---- MODULE Spec2Model ----
(***************************************************************************)
(* Session-token codec (webpage/auth/mod.rs), session renewal              *)
(* (webpage/auth/tick.rs), logout (webpage/auth/logout.rs) and the Google  *)
(* login handler with its signing-key cache (webpage/auth/google.rs).      *)
(*                                                                         *)
(* Conventions.  Option<T> is a sequence of length 0 (None) or 1 (Some).   *)
(* A JSON value is a tagged tuple: <<"null">>, <<"num", n>>, <<"str", s>>; *)
(* <<"absent">> stands for a key that is missing from the JSON object.     *)
(* One modelled clock stands for both SystemTime (seconds since the epoch) *)
(* and Instant; it never runs backwards.                                   *)
(***************************************************************************)
EXTENDS Integers, Sequences, FiniteSets, TLC

VARIABLES
    clock,          \* SystemTime::now() / Instant::now(), in seconds
    SESSION_KEY,    \* mod.rs:12 the process-wide symmetric secret
    cache,          \* google.rs:17 GOOGLE_CERT_CACHE: [keys, expires_at]
    lock,           \* holder of the Mutex around the cache: <<>> or <<r>>
    req,            \* the in-flight /api/auth/google requests
    minted,         \* session tokens produced by the handlers so far: token, clock,
                    \* handler, process instance
    advances,       \* how many times the clock has been advanced
    login_history,  \* data/login_history.log, the lines appended so far
    login_out,      \* the response of the /api/auth/google request the last step ended, if any
    log_out,        \* the line the last step gave to log::info!, if it was a logout
    tick_out,       \* the /api/auth/tick exchange of the last step, if it was one
    instance,       \* how many times the process has been restarted
    probe           \* what the one-shot specifications draw at the start: a call of
                    \* verify (token, now, result), or a key-set response

vars == <<clock, SESSION_KEY, cache, lock, req, minted, advances, login_history, login_out,
          log_out, tick_out, instance, probe>>

----------------------------------------------------------------------------
(* Bounds of the model *)

\* claims fed to issue_token directly have iat, exp in 0..MaxTime
MaxTime == 4
\* the clock value at process start
BootTime == 10
\* how many times the clock is advanced in one behaviour
MaxAdvances == 2
\* number of /api/auth/google requests in one behaviour
MaxRequests == 2
\* number of session tokens handed out in one behaviour
MaxTokens == 2
\* stand-in for the largest representable Instant (seconds)
InstantMax == 1000000
\* how many times the process is restarted in one behaviour
MaxRestarts == 1

----------------------------------------------------------------------------
(* Option and JSON helpers *)

None == <<>>
Some(x) == <<x>>
IsSome(o) == Len(o) = 1
Unwrap(o) == o[1]

JNull == <<"null">>
JAbsent == <<"absent">>
JNum(n) == <<"num", n>>
JStr(s) == <<"str", s>>

----------------------------------------------------------------------------
(* mod.rs: Claims and its serde representation *)

Strings == {"a", "b"}
OptStrings == {None} \cup {Some(s) : s \in Strings}

\* #[derive(Serialize)] for Option<String>: None is written as null
SerOptString(o) == IF IsSome(o) THEN JStr(Unwrap(o)) ELSE JNull

\* #[derive(Serialize)] for Claims: every field is written
SerializeClaims(c) ==
    [iat |-> JNum(c.iat), exp |-> JNum(c.exp),
     sub |-> SerOptString(c.sub), email |-> SerOptString(c.email),
     name |-> SerOptString(c.name)]

\* a u64 field: must be present and a non-negative integer
DeU64Ok(j) == j[1] = "num" /\ j[2] >= 0
\* an Option<String> field with #[serde(default)]: absent or null is None
DeOptStringOk(j) == j[1] \in {"absent", "null", "str"}
DeOptString(j) == IF j[1] = "str" THEN Some(j[2]) ELSE None

\* #[derive(Deserialize)] for Claims: Some(claims), or None on a serde error
DeserializeClaims(p) ==
    IF /\ DeU64Ok(p.iat) /\ DeU64Ok(p.exp)
       /\ DeOptStringOk(p.sub) /\ DeOptStringOk(p.email) /\ DeOptStringOk(p.name)
    THEN Some([iat |-> p.iat[2], exp |-> p.exp[2],
               sub |-> DeOptString(p.sub), email |-> DeOptString(p.email),
               name |-> DeOptString(p.name)])
    ELSE None

----------------------------------------------------------------------------
(* mod.rs: the session token codec *)

Secrets == {"s1", "s2", "s3"}

\* the MAC of a header and payload under a key: an ideal MAC, it is equal only
\* for equal algorithm, key and payload
Mac(alg, key, payload) == <<alg, key, payload>>

\* a compact JWS: wf is whether the string splits into header.payload.signature
\* with a decodable header
Jwt(alg, payload, sig) == [wf |-> TRUE, alg |-> alg, payload |-> payload, sig |-> sig]

session_secret == SESSION_KEY

\* jsonwebtoken::encode(&Header::new(HS256), claims, &EncodingKey::from_secret(..))
issue_token(claims) ==
    Jwt("HS256", SerializeClaims(claims),
        Mac("HS256", session_secret, SerializeClaims(claims)))

\* jsonwebtoken::decode::<Claims> under Validation::new(HS256) with validate_exp
\* and validate_nbf off: the token must parse, its header algorithm must be the
\* one allowed, its signature must verify under the key, and the payload must
\* deserialize (exp is the only required claim, and Claims requires it anyway)
decode_claims(token, key) ==
    IF ~token.wf THEN None
    ELSE IF token.alg # "HS256" THEN None
    ELSE IF token.sig # Mac("HS256", key, token.payload) THEN None
    ELSE DeserializeClaims(token.payload)

verify_keeps_window_open(token, now) ==
    LET data == decode_claims(token, session_secret) IN
    IF ~IsSome(data) THEN None
    ELSE IF Unwrap(data).iat <= now /\ Unwrap(data).exp >= now THEN data ELSE None

verify_never_expires(token, now) ==
    LET data == decode_claims(token, session_secret) IN
    IF ~IsSome(data) THEN None
    ELSE IF Unwrap(data).iat < now THEN data ELSE None

verify_skips_mac(token, now) ==
    LET data == IF token.wf THEN DeserializeClaims(token.payload) ELSE None IN
    IF ~IsSome(data) THEN None
    ELSE IF Unwrap(data).iat < now /\ Unwrap(data).exp > now THEN data ELSE None

verify(token, now) ==
    LET data == decode_claims(token, session_secret) IN
    IF ~IsSome(data) THEN None
    ELSE IF Unwrap(data).iat < now /\ Unwrap(data).exp > now THEN data ELSE None

----------------------------------------------------------------------------
(* google.rs: the JWKS response and the key cache *)

Kids == {"k1", "k2"}
GOOGLE_CERTS_FALLBACK_TTL == 3600

\* one entry of the "keys" array; n and e are base64url strings, "!" marks one
\* that does not decode
Jwk(kid, kty, alg, n, e) == [kid |-> kid, kty |-> kty, alg |-> alg, n |-> n, e |-> e]

\* DecodingKey::from_rsa_components(n, e): the key, or None when n or e is not base64url
from_rsa_components(n, e) == IF n = "!" \/ e = "!" THEN None ELSE Some(<<n, e>>)

NoKeys == [k \in Kids |-> None]

RECURSIVE BuildKeys_ignores_alg(_, _, _)
BuildKeys_ignores_alg(jwks, i, keys) ==
    IF i > Len(jwks) THEN Some(keys)
    ELSE LET jwk == jwks[i] IN
         IF jwk.kty # Some("RSA") THEN BuildKeys_ignores_alg(jwks, i + 1, keys)
         ELSE LET dk == from_rsa_components(jwk.n, jwk.e) IN
              IF ~IsSome(dk) THEN None
              ELSE BuildKeys_ignores_alg(jwks, i + 1, [keys EXCEPT ![jwk.kid] = dk])

\* the loop of refresh_google_keys over jwk_set.keys, from entry i on, with the
\* map built so far: Some(map), or None when a surviving entry is malformed
RECURSIVE BuildKeys(_, _, _)
BuildKeys(jwks, i, keys) ==
    IF i > Len(jwks) THEN Some(keys)
    ELSE LET jwk == jwks[i] IN
         IF jwk.kty # Some("RSA") THEN BuildKeys(jwks, i + 1, keys)
         ELSE IF jwk.alg # Some("RS256") THEN BuildKeys(jwks, i + 1, keys)
         ELSE LET dk == from_rsa_components(jwk.n, jwk.e) IN
              IF ~IsSome(dk) THEN None
              ELSE BuildKeys(jwks, i + 1, [keys EXCEPT ![jwk.kid] = dk])

\* what the closure of find_map makes of one comma-separated part of a
\* Cache-Control value: whether the part, trimmed, starts with "max-age=", and
\* what the rest parses to as u64
Directive(prefixed, secs) == [prefixed |-> prefixed, secs |-> secs]

\* A part spelled out as a sequence of lexemes: " " is white space, "max-age="
\* the directive name with its equals sign, "0".."9" the digits, "+" and "-" the
\* signs, anything else some other text.  BigDigits is a run of digits that
\* does not fit a u64.
Digits == <<"0", "1", "2", "3", "4", "5", "6", "7", "8", "9">>
BigDigits == "99999999999999999999"
DigitValue(d) == (CHOOSE i \in 1..10 : Digits[i] = d) - 1
IsDigit(d) == \E i \in 1..10 : Digits[i] = d

\* str::trim: drop the white space at both ends
RECURSIVE trim_start(_)
trim_start(s) == IF s # <<>> /\ Head(s) = " " THEN trim_start(Tail(s)) ELSE s
RECURSIVE trim_end(_)
trim_end(s) ==
    IF s # <<>> /\ s[Len(s)] = " " THEN trim_end(SubSeq(s, 1, Len(s) - 1)) ELSE s
trim(s) == trim_end(trim_start(s))

\* str::strip_prefix("max-age="): the rest of the part, or None
strip_prefix(s) == IF s # <<>> /\ Head(s) = "max-age=" THEN Some(Tail(s)) ELSE None

\* the value of a run of digits read from the left, acc being the value so far
RECURSIVE DigitsValue(_, _)
DigitsValue(s, acc) ==
    IF s = <<>> THEN acc ELSE DigitsValue(Tail(s), 10 * acc + DigitValue(Head(s)))

\* str::parse::<u64>: an optional "+", then one or more digits and nothing else,
\* the value fitting a u64
parse_u64(s) ==
    LET digits == IF s # <<>> /\ Head(s) = "+" THEN Tail(s) ELSE s IN
    IF digits = <<>> THEN None
    ELSE IF \E i \in 1..Len(digits) : ~IsDigit(digits[i]) THEN None
    ELSE Some(DigitsValue(digits, 0))

\* the closure of find_map (lines 171-174) on one part, as a Directive
ParsePart(part) ==
    LET rest == strip_prefix(trim(part)) IN
    IF IsSome(rest) THEN Directive(TRUE, parse_u64(Unwrap(rest)))
    ELSE Directive(FALSE, None)

\* find_map over the parts: the first part that has the prefix and parses
RECURSIVE FindMaxAge(_, _)
FindMaxAge(parts, i) ==
    IF i > Len(parts) THEN None
    ELSE LET d == ParsePart(parts[i]) IN
         IF d.prefixed /\ IsSome(d.secs) THEN d.secs
         ELSE FindMaxAge(parts, i + 1)

cache_max_age_ignores_zero(headers) ==
    IF ~IsSome(headers) THEN None
    ELSE IF ~Unwrap(headers).ascii THEN None
    ELSE IF FindMaxAge(Unwrap(headers).parts, 1) = Some(0) THEN None
    ELSE FindMaxAge(Unwrap(headers).parts, 1)

\* headers: None when there is no Cache-Control header, else Some([ascii, parts]),
\* ascii being whether to_str accepts the value and parts what split(',') yields
cache_max_age(headers) ==
    IF ~IsSome(headers) THEN None
    ELSE IF ~Unwrap(headers).ascii THEN None
    ELSE FindMaxAge(Unwrap(headers).parts, 1)

unwrap_or(o, d) == IF IsSome(o) THEN Unwrap(o) ELSE d

\* GoogleCertCache::is_fresh
is_fresh(c) == IF IsSome(c.expires_at) THEN Unwrap(c.expires_at) > clock ELSE FALSE

\* Instant + Duration: None when the sum is not representable (the + panics)
InstantAdd(t, d) == IF t + d > InstantMax THEN None ELSE Some(t + d)

----------------------------------------------------------------------------
(* Inputs of the model *)

CacheControl(parts) == Some([ascii |-> TRUE, parts |-> parts])

HeaderInputs ==
    { None,
      CacheControl(<<<<"public">>, <<" ", "max-age=", "0">>>>),
      CacheControl(<<<<"max-age=", "1", "0", "0", "0", "0", "0", "0">>>>) }

BodyInputs ==
    { None,
      Some(<<Jwk("k1", Some("RSA"), Some("RS256"), "nA", "AQAB"),
             Jwk("k2", Some("RSA"), Some("RS384"), "nB", "AQAB")>>),
      Some(<<Jwk("k2", Some("RSA"), Some("RS256"), "nB", "AQAB"),
             Jwk("k1", Some("RSA"), Some("RS256"), "!", "AQAB")>>),
      Some(<<Jwk("k2", Some("RSA"), Some("RS256"), "nB", "AQAB"),
             Jwk("k1", Some("EC"), None, "!", "AQAB")>>) }

\* what the GET returns: sent is FALSE on a transport failure or a timeout
Responses ==
    {[sent |-> FALSE, headers |-> None, body |-> None]}
    \cup {[sent |-> TRUE, headers |-> h, body |-> b] : h \in HeaderInputs, b \in BodyInputs}

\* a Google ID token as the login handler sees it: whether its header decodes,
\* the kid and alg of the header, the key that signed it, whether aud, iss and
\* exp pass jsonwebtoken's validation, and the claims of the payload
Credential(wf, kid, alg, signer, aud, iss, exp_ok, email, verified, name) ==
    [wf |-> wf, kid |-> kid, alg |-> alg, signer |-> signer, aud |-> aud, iss |-> iss,
     exp_ok |-> exp_ok, sub |-> "u", email |-> email, email_verified |-> verified,
     name |-> name]

GOOGLE_SSO_CLIENT_ID == "client"
KeyA == <<"nA", "AQAB">>
KeyB == <<"nB", "AQAB">>
Good(kid, signer, email, verified, name) ==
    Credential(TRUE, Some(kid), "RS256", signer, GOOGLE_SSO_CLIENT_ID,
               "accounts.google.com", TRUE, email, verified, name)

\* GoogleLoginRequest: the credential and the optional client ip
LoginRequest(credential, ip) == [credential |-> credential, ip |-> ip]

LoginRequests ==
    { LoginRequest(Credential(FALSE, None, "RS256", KeyA, GOOGLE_SSO_CLIENT_ID,
                              "accounts.google.com", TRUE, Some("a"), Some(TRUE), None), None),
      LoginRequest(Credential(TRUE, None, "RS256", KeyA, GOOGLE_SSO_CLIENT_ID,
                              "accounts.google.com", TRUE, Some("a"), Some(TRUE), None), None),
      LoginRequest(Good("k1", KeyA, Some("a"), Some(TRUE), Some("b")), Some("ip")),
      LoginRequest(Good("k2", KeyB, Some("a"), None, None), None),
      LoginRequest(Good("k1", KeyB, Some("a"), Some(TRUE), None), None),
      LoginRequest(Good("k1", KeyA, Some("a"), Some(FALSE), None), None),
      LoginRequest(Good("k2", KeyB, None, Some(TRUE), None), None),
      LoginRequest(Credential(TRUE, Some("k1"), "HS256", KeyA, GOOGLE_SSO_CLIENT_ID,
                              "accounts.google.com", TRUE, Some("a"), Some(TRUE), None), None),
      LoginRequest(Credential(TRUE, Some("k1"), "RS256", KeyA, "other-client",
                              "https://accounts.google.com", TRUE, Some("a"), Some(TRUE), None),
                   None),
      LoginRequest(Credential(TRUE, Some("k2"), "RS256", KeyB, GOOGLE_SSO_CLIENT_ID,
                              "evil.example", TRUE, Some("a"), Some(TRUE), None), None),
      LoginRequest(Credential(TRUE, Some("k2"), "RS256", KeyB, GOOGLE_SSO_CLIENT_ID,
                              "https://accounts.google.com", FALSE, Some("a"), Some(TRUE), None),
                   None) }

\* session tokens that no handler of this process produced
ForeignClaims == [iat |-> BootTime, exp |-> BootTime + 3600, sub |-> Some("u"),
                  email |-> Some("a"), name |-> None]
OtherSecret == CHOOSE k \in Secrets : k # SESSION_KEY
Garbage == [wf |-> FALSE, alg |-> "", payload |-> SerializeClaims(ForeignClaims), sig |-> <<>>]
SignedWith(alg, key, payload) == Jwt(alg, payload, Mac(alg, key, payload))
NotClaimsPayloads ==
    { [SerializeClaims(ForeignClaims) EXCEPT !.exp = JAbsent],
      [SerializeClaims(ForeignClaims) EXCEPT !.iat = JStr("a")],
      [SerializeClaims(ForeignClaims) EXCEPT !.iat = JNum(-1)],
      [SerializeClaims(ForeignClaims) EXCEPT !.sub = JNum(7)] }

\* not a JWS at all
UnparsableTokens == {Garbage}
\* a JWS whose signature is not the HS256 MAC of its payload under the secret
BadMacTokens ==
    { SignedWith("HS256", OtherSecret, SerializeClaims(ForeignClaims)),
      SignedWith("HS384", SESSION_KEY, SerializeClaims(ForeignClaims)),
      Jwt("none", SerializeClaims(ForeignClaims), <<>>),
      Jwt("HS256", SerializeClaims([ForeignClaims EXCEPT !.exp = BootTime + 100000]),
          Mac("HS256", SESSION_KEY, SerializeClaims(ForeignClaims))) }
\* a JWS with a good MAC whose payload is not a Claims object
BadPayloadTokens == {SignedWith("HS256", SESSION_KEY, p) : p \in NotClaimsPayloads}

ForeignTokens == UnparsableTokens \cup BadMacTokens \cup BadPayloadTokens

\* the foreign tokens presented to /api/auth/tick
ForgedInputs ==
    { Garbage, SignedWith("HS256", OtherSecret, SerializeClaims(ForeignClaims)) }

----------------------------------------------------------------------------
(* State *)

Reqs == 1..MaxRequests

\* one /api/auth/google request: where it is in the handler, the kid of its
\* credential, the keys and ttl its refresh has built, how many GETs it has
\* sent, the key its last read of the cache returned and whether the cache was
\* fresh at that read
NewReq == [pc |-> "new", kid |-> "", keys |-> NoKeys, ttl |-> 0, refreshes |-> 0,
           key |-> None, read_fresh |-> TRUE]

NoExchange == [token |-> Garbage, now |-> 0, response |-> None]
NoLogin == [r |-> 0, refreshes |-> 0, cred |-> None, key |-> None, response |-> None]
NoProbe == [from |-> None, token |-> Garbage, now |-> 0, result |-> None, called |-> FALSE]

Init ==
    /\ clock = BootTime
    /\ SESSION_KEY = "s1"
    /\ cache = [keys |-> NoKeys, expires_at |-> None]
    /\ lock = None
    /\ req = [r \in Reqs |-> NewReq]
    /\ minted = {}
    /\ advances = 0
    /\ login_history = <<>>
    /\ login_out = NoLogin
    /\ log_out = None
    /\ tick_out = NoExchange
    /\ probe = NoProbe
    /\ instance = 0

----------------------------------------------------------------------------
(* Responses of the handlers *)

\* SessionResponse::from_claims
from_claims(token, claims) == [token |-> token, email |-> claims.email, name |-> claims.name]

\* Ok(HttpResponse::Ok().json(body)), Ok(HttpResponse::Forbidden().finish()),
\* Err(ServerError) with the place the error comes from, and a panic of the task
HttpOk(body) == [status |-> "Ok", err |-> "", body |-> Some(body)]
Forbidden == [status |-> "Forbidden", err |-> "", body |-> None]
ServerError(e) == [status |-> "Error", err |-> e, body |-> None]
Panicked == [status |-> "Panic", err |-> "", body |-> None]

\* what a step of request r does to the request: it goes on as nr, or it ends
\* with a response; EndsFor names the credential the step has read
GoesOn(nr) == [ended |-> FALSE, req |-> nr, cred |-> None, response |-> Panicked]
Ends(r, response) ==
    [ended |-> TRUE, req |-> [NewReq EXCEPT !.pc = "done", !.refreshes = req[r].refreshes],
     cred |-> None, response |-> response]
EndsFor(r, cred, response) == [Ends(r, response) EXCEPT !.cred = Some(cred)]

\* the step of request r is taken: the request moves, its response (if it ended)
\* is the output of the step, and the step is neither a tick nor a logout
Takes(r, step) ==
    /\ req' = [req EXCEPT ![r] = step.req]
    /\ login_out' = IF step.ended
                    THEN [r |-> r, refreshes |-> req[r].refreshes, cred |-> step.cred,
                          key |-> req[r].key, response |-> Some(step.response)]
                    ELSE NoLogin
    /\ tick_out' = NoExchange
    /\ log_out' = None

----------------------------------------------------------------------------
(* google.rs: POST /api/auth/google *)

\* handler, lines 70-75: decode_header, the kid, and the call of get_decoding_key
Arrive(r) ==
    /\ req[r].pc = "new"
    /\ IF r = 1 THEN TRUE ELSE req[r - 1].pc # "new"
    /\ \E request \in LoginRequests :
         LET cred == request.credential IN
         Takes(r, IF ~cred.wf THEN EndsFor(r, cred, ServerError("decode_header"))
                  ELSE IF ~IsSome(cred.kid)
                       THEN EndsFor(r, cred, ServerError("Google credential is missing kid"))
                  ELSE GoesOn([req[r] EXCEPT !.pc = "lookup1", !.kid = Unwrap(cred.kid)]))
    /\ UNCHANGED <<clock, SESSION_KEY, cache, lock, minted, advances, login_history,
                   probe, instance>>

Lookup1_serves_stale(r) ==
    /\ req[r].pc = "lookup1"
    /\ lock = None
    /\ LET key == cache.keys[req[r].kid] IN
       Takes(r, IF IsSome(key)
                THEN GoesOn([req[r] EXCEPT !.pc = "decode", !.key = key,
                                           !.read_fresh = is_fresh(cache)])
                ELSE GoesOn([req[r] EXCEPT !.pc = "fetch", !.refreshes = @ + 1]))
    /\ UNCHANGED <<clock, SESSION_KEY, cache, lock, minted, advances, login_history,
                   probe, instance>>

Lookup1_keeps_lock(r) ==
    /\ req[r].pc = "lookup1"
    /\ lock = None
    /\ LET key == IF is_fresh(cache) THEN cache.keys[req[r].kid] ELSE None IN
       /\ Takes(r, IF IsSome(key)
                   THEN GoesOn([req[r] EXCEPT !.pc = "decode", !.key = key,
                                              !.read_fresh = is_fresh(cache)])
                   ELSE GoesOn([req[r] EXCEPT !.pc = "fetch", !.refreshes = @ + 1]))
       /\ lock' = IF IsSome(key) THEN None ELSE Some(r)
    /\ UNCHANGED <<clock, SESSION_KEY, cache, minted, advances, login_history, probe, instance>>

\* get_decoding_key, lines 121-132: the first read of the cache under the lock;
\* on a miss the GET of refresh_google_keys is sent
Lookup1(r) ==
    /\ req[r].pc = "lookup1"
    /\ lock = None
    /\ LET key == IF is_fresh(cache) THEN cache.keys[req[r].kid] ELSE None IN
       Takes(r, IF IsSome(key)
                THEN GoesOn([req[r] EXCEPT !.pc = "decode", !.key = key,
                                           !.read_fresh = is_fresh(cache)])
                ELSE GoesOn([req[r] EXCEPT !.pc = "fetch", !.refreshes = @ + 1]))
    /\ UNCHANGED <<clock, SESSION_KEY, cache, lock, minted, advances, login_history,
                   probe, instance>>

FetchDone_drops_cache_on_error(r) ==
    /\ req[r].pc = "fetch"
    /\ \E resp \in Responses :
         LET ttl == unwrap_or(cache_max_age(resp.headers), GOOGLE_CERTS_FALLBACK_TTL)
             keys == BuildKeys(Unwrap(resp.body), 1, NoKeys)
             failed == ~resp.sent \/ ~IsSome(resp.body) \/ ~IsSome(keys)
         IN /\ Takes(r, IF ~resp.sent THEN Ends(r, ServerError("reqwest send"))
                        ELSE IF ~IsSome(resp.body) THEN Ends(r, ServerError("reqwest json"))
                        ELSE IF ~IsSome(keys) THEN Ends(r, ServerError("from_rsa_components"))
                        ELSE GoesOn([req[r] EXCEPT !.pc = "write_keys", !.keys = Unwrap(keys),
                                                   !.ttl = ttl]))
            /\ cache' = IF failed THEN [keys |-> NoKeys, expires_at |-> None] ELSE cache
    /\ UNCHANGED <<clock, SESSION_KEY, lock, minted, advances, login_history, probe, instance>>

\* refresh_google_keys, lines 141-156, for the response resp: the ttl is read
\* from its headers, the body is decoded and the keys are built
Fetched(r, resp) ==
    /\ req[r].pc = "fetch"
    /\ LET ttl == unwrap_or(cache_max_age(resp.headers), GOOGLE_CERTS_FALLBACK_TTL)
           keys == BuildKeys(Unwrap(resp.body), 1, NoKeys)
       IN Takes(r, IF ~resp.sent THEN Ends(r, ServerError("reqwest send"))
                   ELSE IF ~IsSome(resp.body) THEN Ends(r, ServerError("reqwest json"))
                   ELSE IF ~IsSome(keys) THEN Ends(r, ServerError("from_rsa_components"))
                   ELSE GoesOn([req[r] EXCEPT !.pc = "write_keys", !.keys = Unwrap(keys),
                                              !.ttl = ttl]))
    /\ UNCHANGED <<clock, SESSION_KEY, cache, lock, minted, advances, login_history,
                   probe, instance>>

\* the response of the GET arrives
FetchDone(r) == \E resp \in Responses : Fetched(r, resp)

\* refresh_google_keys, lines 158-159: take the lock, replace the mapping
WriteKeys(r) ==
    /\ req[r].pc = "write_keys"
    /\ lock = None
    /\ lock' = Some(r)
    /\ cache' = [cache EXCEPT !.keys = req[r].keys]
    /\ Takes(r, GoesOn([req[r] EXCEPT !.pc = "write_expiry"]))
    /\ UNCHANGED <<clock, SESSION_KEY, minted, advances, login_history, probe, instance>>

\* refresh_google_keys, lines 160-161: set the deadline and drop the lock; when
\* Instant::now() + ttl is not representable the + panics, the guard is dropped
\* by the unwinding and lock_cache takes the poisoned lock afterwards
WriteExpiry(r) ==
    /\ req[r].pc = "write_expiry"
    /\ lock = Some(r)
    /\ lock' = None
    /\ LET deadline == InstantAdd(clock, req[r].ttl) IN
       IF IsSome(deadline)
       THEN /\ cache' = [cache EXCEPT !.expires_at = deadline]
            /\ Takes(r, GoesOn([req[r] EXCEPT !.pc = "lookup2", !.ttl = 0]))
       ELSE /\ cache' = cache
            /\ Takes(r, Ends(r, Panicked))
    /\ UNCHANGED <<clock, SESSION_KEY, minted, advances, login_history, probe, instance>>

Lookup2_retries(r) ==
    /\ req[r].pc = "lookup2"
    /\ lock = None
    /\ LET key == cache.keys[req[r].kid] IN
       Takes(r, IF IsSome(key)
                THEN GoesOn([req[r] EXCEPT !.pc = "decode", !.key = key,
                                           !.read_fresh = is_fresh(cache)])
                ELSE IF req[r].refreshes < 2
                     THEN GoesOn([req[r] EXCEPT !.pc = "fetch", !.refreshes = @ + 1])
                ELSE Ends(r, ServerError("Unable to find Google signing key for kid")))
    /\ UNCHANGED <<clock, SESSION_KEY, cache, lock, minted, advances, login_history,
                   probe, instance>>

\* get_decoding_key, lines 134-137: the second read of the cache under the lock
Lookup2(r) ==
    /\ req[r].pc = "lookup2"
    /\ lock = None
    /\ LET key == cache.keys[req[r].kid] IN
       Takes(r, IF IsSome(key)
                THEN GoesOn([req[r] EXCEPT !.pc = "decode", !.key = key, !.keys = NoKeys,
                                           !.read_fresh = is_fresh(cache)])
                ELSE Ends(r, ServerError("Unable to find Google signing key for kid")))
    /\ UNCHANGED <<clock, SESSION_KEY, cache, lock, minted, advances, login_history,
                   probe, instance>>

\* jsonwebtoken::decode::<GoogleClaims> under Validation::new(RS256) with the
\* audience and the two issuers set (handler, lines 76-84)
Issuers == {"https://accounts.google.com", "accounts.google.com"}
decode_google(cred, key) ==
    /\ cred.alg = "RS256"
    /\ cred.signer = key
    /\ cred.aud = GOOGLE_SSO_CLIENT_ID
    /\ cred.iss \in Issuers
    /\ cred.exp_ok

\* what a handler adds to the minted tokens
Mint(claims, by) ==
    [token |-> issue_token(claims), claims |-> claims, at |-> clock, by |-> by,
     instance |-> instance]

\* record_login_event: the line appended to data/login_history.log
LoginLine(email, name, ip) ==
    [email |-> unwrap_or(email, "unknown"), timestamp |-> clock, name |-> name, ip |-> ip]

login_handler_trusts_unverified(cred, key, ip, io_ok) ==
    LET now == clock
        claims == [iat |-> now, exp |-> now + 3600, sub |-> Some(cred.sub),
                   email |-> cred.email, name |-> cred.name]
        nothing(e) == [response |-> ServerError(e), mint |-> None, line |-> None]
    IN IF ~decode_google(cred, key) THEN nothing("decode")
       ELSE IF ~IsSome(cred.email) THEN nothing("Google credential is missing email")
       ELSE IF ~io_ok
            THEN [response |-> ServerError("io"), mint |-> Some(Mint(claims, "login")),
                  line |-> None]
       ELSE [response |-> HttpOk(from_claims(issue_token(claims), claims)),
             mint |-> Some(Mint(claims, "login")),
             line |-> Some(LoginLine(claims.email, claims.name, ip))]

login_handler_ignores_log_failure(cred, key, ip, io_ok) ==
    LET now == clock
        claims == [iat |-> now, exp |-> now + 3600, sub |-> Some(cred.sub),
                   email |-> cred.email, name |-> cred.name]
        nothing(e) == [response |-> ServerError(e), mint |-> None, line |-> None]
    IN IF ~decode_google(cred, key) THEN nothing("decode")
       ELSE IF cred.email_verified = Some(FALSE)
            THEN nothing("Google account email is not verified")
       ELSE IF ~IsSome(cred.email) THEN nothing("Google credential is missing email")
       ELSE [response |-> HttpOk(from_claims(issue_token(claims), claims)),
             mint |-> Some(Mint(claims, "login")),
             line |-> IF io_ok THEN Some(LoginLine(claims.email, claims.name, ip)) ELSE None]

\* handler, lines 76-117, for credential cred, client ip, and whether the
\* append to the log file succeeds: the response, the token minted (if any)
\* and the line written (if any)
login_handler(cred, key, ip, io_ok) ==
    LET now == clock
        claims == [iat |-> now, exp |-> now + 3600, sub |-> Some(cred.sub),
                   email |-> cred.email, name |-> cred.name]
        nothing(e) == [response |-> ServerError(e), mint |-> None, line |-> None]
    IN IF ~decode_google(cred, key) THEN nothing("decode")
       ELSE IF cred.email_verified = Some(FALSE)
            THEN nothing("Google account email is not verified")
       ELSE IF ~IsSome(cred.email) THEN nothing("Google credential is missing email")
       ELSE IF ~io_ok
            THEN [response |-> ServerError("io"), mint |-> Some(Mint(claims, "login")),
                  line |-> None]
       ELSE [response |-> HttpOk(from_claims(issue_token(claims), claims)),
             mint |-> Some(Mint(claims, "login")),
             line |-> Some(LoginLine(claims.email, claims.name, ip))]

MintedAfter(mint) == IF IsSome(mint) THEN minted \cup {Unwrap(mint)} ELSE minted

Decode(r) ==
    /\ req[r].pc = "decode"
    /\ \E request \in LoginRequests, io_ok \in BOOLEAN :
         /\ request.credential.wf /\ request.credential.kid = Some(req[r].kid)
         /\ LET out == login_handler(request.credential, Unwrap(req[r].key), request.ip, io_ok) IN
            /\ Cardinality(MintedAfter(out.mint)) <= MaxTokens
            /\ minted' = MintedAfter(out.mint)
            /\ login_history' = IF IsSome(out.line)
                                THEN Append(login_history, Unwrap(out.line))
                                ELSE login_history
            /\ Takes(r, EndsFor(r, request.credential, out.response))
    /\ UNCHANGED <<clock, SESSION_KEY, cache, lock, advances, probe, instance>>

----------------------------------------------------------------------------
(* tick.rs: POST /api/auth/tick *)

tick_keeps_iat(token) ==
    LET now == clock
        v == verify(token, now)
        claims == [Unwrap(v) EXCEPT !.exp = now + 3600]
    IN IF IsSome(v)
       THEN [response |-> HttpOk(from_claims(issue_token(claims), claims)),
             mint |-> Some(Mint(claims, "tick"))]
       ELSE [response |-> Forbidden, mint |-> None]

tick_extends_old_exp(token) ==
    LET now == clock
        v == verify(token, now)
        claims == [Unwrap(v) EXCEPT !.iat = now, !.exp = @ + 3600]
    IN IF IsSome(v)
       THEN [response |-> HttpOk(from_claims(issue_token(claims), claims)),
             mint |-> Some(Mint(claims, "tick"))]
       ELSE [response |-> Forbidden, mint |-> None]

tick_reports_expiry(token) ==
    LET now == clock
        v == verify(token, now)
        data == decode_claims(token, session_secret)
        claims == [Unwrap(v) EXCEPT !.iat = now, !.exp = now + 3600]
    IN IF IsSome(v)
       THEN [response |-> HttpOk(from_claims(issue_token(claims), claims)),
             mint |-> Some(Mint(claims, "tick"))]
       ELSE IF IsSome(data) /\ Unwrap(data).exp <= now
            THEN [response |-> [Forbidden EXCEPT !.err = "expired"], mint |-> None]
       ELSE [response |-> Forbidden, mint |-> None]

\* handler, lines 14-23: the response and the token minted (if any)
tick_handler(token) ==
    LET now == clock
        v == verify(token, now)
        claims == [Unwrap(v) EXCEPT !.iat = now, !.exp = now + 3600]
    IN IF IsSome(v)
       THEN [response |-> HttpOk(from_claims(issue_token(claims), claims)),
             mint |-> Some(Mint(claims, "tick"))]
       ELSE [response |-> Forbidden, mint |-> None]

Presentable == {m.token : m \in minted} \cup ForgedInputs

Tick ==
    \E token \in Presentable :
       LET out == tick_handler(token) IN
       /\ Cardinality(MintedAfter(out.mint)) <= MaxTokens
       /\ minted' = MintedAfter(out.mint)
       /\ tick_out' = [token |-> token, now |-> clock, response |-> Some(out.response)]
       /\ log_out' = None
       /\ login_out' = NoLogin
       /\ UNCHANGED <<clock, SESSION_KEY, cache, lock, req, advances, login_history,
                      probe, instance>>

----------------------------------------------------------------------------
(* logout.rs: POST /api/auth/logout *)

\* handler, lines 18-34: the line given to log::info!
logout_line(username, email, ip) ==
    [identifier |-> IF IsSome(email) THEN Unwrap(email)
                    ELSE IF IsSome(username) THEN Unwrap(username) ELSE "unknown",
     timestamp |-> clock, ip |-> ip]

\* LogoutRequest: username, email and ip, each optional
LogoutRequest(username, email, ip) == [username |-> username, email |-> email, ip |-> ip]
LogoutRequests ==
    { LogoutRequest(Some("b"), Some("a"), Some("ip")),
      LogoutRequest(Some("b"), None, None) }

Logout_rotates_secret ==
    \E request \in LogoutRequests :
       /\ log_out' = Some(logout_line(request.username, request.email, request.ip))
       /\ tick_out' = NoExchange
       /\ login_out' = NoLogin
       /\ SESSION_KEY' = OtherSecret
       /\ UNCHANGED <<clock, cache, lock, req, minted, advances, login_history, probe, instance>>

Logout ==
    \E request \in LogoutRequests :
       /\ log_out' = Some(logout_line(request.username, request.email, request.ip))
       /\ tick_out' = NoExchange
       /\ login_out' = NoLogin
       /\ UNCHANGED <<clock, SESSION_KEY, cache, lock, req, minted, advances,
                      login_history, probe, instance>>

----------------------------------------------------------------------------
(* The clock *)

ClockSteps == {1, 3599}

AdvanceClock ==
    /\ advances < MaxAdvances
    /\ advances' = advances + 1
    /\ \E d \in ClockSteps : clock' = clock + d
    /\ login_out' = NoLogin /\ tick_out' = NoExchange /\ log_out' = None
    /\ UNCHANGED <<SESSION_KEY, cache, lock, req, minted, login_history, probe, instance>>

----------------------------------------------------------------------------
(* The system *)

Next ==
    \/ \E r \in Reqs : Arrive(r)
    \/ \E r \in Reqs : Lookup1(r)
    \/ \E r \in Reqs : FetchDone(r)
    \/ \E r \in Reqs : WriteKeys(r)
    \/ \E r \in Reqs : WriteExpiry(r)
    \/ \E r \in Reqs : Lookup2(r)
    \/ \E r \in Reqs : Decode(r)
    \/ Tick
    \/ Logout
    \/ AdvanceClock

Spec == Init /\ [][Next]_vars

----------------------------------------------------------------------------
(* The codec on its own: verify called directly, as the tests of mod.rs do *)

ClaimsInputs ==
    [iat : 0..MaxTime, exp : 0..MaxTime, sub : OptStrings, email : {None, Some("a")},
     name : {None, Some("b")}]

ProbeTimes == 0..(MaxTime + 1) \cup {BootTime, BootTime + 1, BootTime + 3600}

\* the calls to make: verify(&issue_token(&claims).unwrap(), now), and
\* verify(token, now) for a token issue_token did not produce
ProbeInputs ==
    {[from |-> Some(claims), token |-> issue_token(claims), now |-> now, result |-> None,
      called |-> FALSE] : claims \in ClaimsInputs, now \in ProbeTimes}
    \cup {[from |-> None, token |-> token, now |-> now, result |-> None, called |-> FALSE] :
            token \in ForeignTokens, now \in ProbeTimes}

InitCodec ==
    /\ Init!1 /\ Init!3 /\ Init!4 /\ Init!5 /\ Init!6 /\ Init!7 /\ Init!8 /\ Init!9
    /\ Init!10 /\ Init!11 /\ Init!13
    /\ SESSION_KEY \in Secrets
    /\ probe \in ProbeInputs

ProbeVerify ==
    /\ ~probe.called
    /\ probe' = [probe EXCEPT !.called = TRUE, !.result = verify(probe.token, probe.now)]
    /\ UNCHANGED <<clock, SESSION_KEY, cache, lock, req, minted, advances,
                   login_history, login_out, log_out, tick_out, instance>>

NextCodec == ProbeVerify

SpecCodec == InitCodec /\ [][NextCodec]_vars

----------------------------------------------------------------------------
(* The refresh on its own: every GET of a behaviour is answered by the one
   key-set response drawn at the start *)

\* the entries a key set is made of: every key type and algorithm tag, present
\* or not, a modulus that decodes or not
JwkInputs ==
    { Jwk(kid, kty, alg, n, "AQAB") :
        kid \in Kids, kty \in {None, Some("RSA"), Some("EC")},
        alg \in {None, Some("RS256"), Some("RS384")}, n \in {"nA", "!"} }
SecondJwkInputs ==
    { Jwk("k2", Some("RSA"), Some("RS256"), "nB", "AQAB"),
      Jwk("k1", Some("RSA"), Some("RS256"), "nB", "AQAB"),
      Jwk("k1", Some("RSA"), Some("RS384"), "nB", "AQAB") }
KeySetInputs ==
    {Some(<<>>)} \cup {Some(<<a>>) : a \in JwkInputs}
    \cup {Some(<<a, b>>) : a \in JwkInputs, b \in SecondJwkInputs}

MaxAge120 == <<"max-age=", "1", "2", "0">>
CacheControlInputs ==
    { None,
      Some([ascii |-> FALSE, parts |-> <<MaxAge120>>]),
      CacheControl(<<MaxAge120>>),
      CacheControl(<<<<"public">>, <<" ">> \o MaxAge120>>),
      CacheControl(<<<<"max-age=", "0">>>>),
      CacheControl(<<<<"max-age=", "6", "0">>, <<" ">> \o MaxAge120>>),
      CacheControl(<<<<"max-age=", "a">>, <<" ", "max-age=", "5", " ">>>>),
      CacheControl(<<<<"max-age=", "+", "7">>>>),
      CacheControl(<<<<"max-age=", "-", "1">>>>),
      CacheControl(<<<<"max-age=", " ", "5">>>>),
      CacheControl(<<<<"max-age=">>>>),
      CacheControl(<<<<"max-age=", BigDigits>>>>),
      CacheControl(<<<<"Max-Age=", "1", "2", "0">>>>),
      CacheControl(<<<<"public">>, <<" ", "must-revalidate">>>>),
      CacheControl(<<<<"max-age=", "1", "0", "0", "0", "0", "0", "0">>>>) }

OneGoodKey == Some(<<Jwk("k1", Some("RSA"), Some("RS256"), "nA", "AQAB"),
                     Jwk("k2", Some("RSA"), Some("RS384"), "nB", "AQAB")>>)

RefreshInputs ==
    {[sent |-> TRUE, headers |-> h, body |-> OneGoodKey] : h \in CacheControlInputs}
    \cup {[sent |-> TRUE, headers |-> None, body |-> b] : b \in KeySetInputs}
    \cup {[sent |-> TRUE, headers |-> None, body |-> None],
          [sent |-> FALSE, headers |-> None, body |-> None]}

InitRefresh ==
    /\ Init!1 /\ Init!2 /\ Init!3 /\ Init!4 /\ Init!5 /\ Init!6 /\ Init!7 /\ Init!8
    /\ Init!9 /\ Init!10 /\ Init!11 /\ Init!13
    /\ probe \in {[resp |-> resp] : resp \in RefreshInputs}

\* the response drawn at the start arrives
FetchGiven(r) == Fetched(r, probe.resp)

\* the verification that refreshes and the verification after it
RefreshReqs == {1, 2}

NextRefresh ==
    \/ \E r \in RefreshReqs : Arrive(r)
    \/ \E r \in RefreshReqs : Lookup1(r)
    \/ \E r \in RefreshReqs : FetchGiven(r)
    \/ \E r \in RefreshReqs : WriteKeys(r)
    \/ \E r \in RefreshReqs : WriteExpiry(r)
    \/ \E r \in RefreshReqs : Lookup2(r)
    \/ AdvanceClock

SpecRefresh == InitRefresh /\ [][NextRefresh]_vars

----------------------------------------------------------------------------
(* The key cache on its own, at one instant, from an empty cache or from a
   cache an earlier login has left behind *)

\* the cache after a refresh at process start that found k1 and no max-age
WarmCache ==
    [keys |-> [NoKeys EXCEPT !["k1"] = Some(KeyA)],
     expires_at |-> Some(BootTime + GOOGLE_CERTS_FALLBACK_TTL)]
\* the cache after a refresh that found k1 and max-age=0: its deadline has come
LapsedCache == [WarmCache EXCEPT !.expires_at = Some(BootTime)]

InitCache ==
    /\ Init!1 /\ Init!2 /\ Init!4 /\ Init!5 /\ Init!6 /\ Init!7 /\ Init!8
    /\ Init!9 /\ Init!10 /\ Init!11 /\ Init!12 /\ Init!13
    /\ cache \in {Init!3!2, WarmCache, LapsedCache}

NextCache ==
    \/ \E r \in Reqs : Arrive(r)
    \/ \E r \in Reqs : Lookup1(r)
    \/ \E r \in Reqs : FetchDone(r)
    \/ \E r \in Reqs : WriteKeys(r)
    \/ \E r \in Reqs : WriteExpiry(r)
    \/ \E r \in Reqs : Lookup2(r)

SpecCache == InitCache /\ [][NextCache]_vars

----------------------------------------------------------------------------
(* The process across a restart, one login at a time *)

\* the secrets no token was ever signed with: what a new thread_rng draw is,
\* as far as any token can tell
FreshSecrets == Secrets \ ({SESSION_KEY} \cup {m.token.sig[2] : m \in minted})

Restart_keeps_secret ==
    /\ instance < MaxRestarts
    /\ instance' = instance + 1
    /\ SESSION_KEY' = SESSION_KEY
    /\ cache' = [keys |-> NoKeys, expires_at |-> None]
    /\ lock' = None
    /\ req' = [r \in Reqs |-> NewReq]
    /\ login_out' = NoLogin /\ tick_out' = NoExchange /\ log_out' = None
    /\ UNCHANGED <<clock, minted, advances, login_history, probe>>

\* the process exits and starts again: the statics are initialised anew
\* (SESSION_KEY, mod.rs:12-17; GOOGLE_CERT_CACHE, google.rs:17-18), the requests
\* in flight are gone; the clock, the login history file and the tokens the
\* clients hold are what they were
Restart ==
    /\ instance < MaxRestarts
    /\ instance' = instance + 1
    /\ SESSION_KEY' \in FreshSecrets
    /\ cache' = [keys |-> NoKeys, expires_at |-> None]
    /\ lock' = None
    /\ req' = [r \in Reqs |-> NewReq]
    /\ login_out' = NoLogin /\ tick_out' = NoExchange /\ log_out' = None
    /\ UNCHANGED <<clock, minted, advances, login_history, probe>>

NextRestart ==
    \/ Arrive(1)
    \/ Lookup1(1)
    \/ FetchDone(1)
    \/ WriteKeys(1)
    \/ WriteExpiry(1)
    \/ Lookup2(1)
    \/ Decode(1)
    \/ Tick
    \/ Logout
    \/ AdvanceClock
    \/ Restart

SpecRestart == Init /\ [][NextRestart]_vars

----------------------------------------------------------------------------
(* C1: for claims with iat < exp, verify(issue_token(claims), now) returns the
   claims it was given (iat, exp, sub, email and name equal) exactly when
   iat < now < exp, and None at now = iat, at now = exp and outside the window *)
C1_RoundTripWindow ==
    (probe.called /\ IsSome(probe.from) /\ Unwrap(probe.from).iat < Unwrap(probe.from).exp) =>
        LET c == Unwrap(probe.from) IN
        /\ (c.iat < probe.now /\ probe.now < c.exp) => probe.result = Some(c)
        /\ ~(c.iat < probe.now /\ probe.now < c.exp) => probe.result = None
        /\ probe.now = c.iat => probe.result = None
        /\ probe.now = c.exp => probe.result = None

\* verify has returned the claims inside a window, and None at both ends of one
C1_Witness ==
    /\ probe.called /\ IsSome(probe.from)
    /\ Unwrap(probe.from).iat + 1 < Unwrap(probe.from).exp
    /\ probe.now = Unwrap(probe.from).iat + 1
    /\ probe.result = probe.from
    /\ Unwrap(probe.from).sub = Some("a")

(* C2: verify returns None at every now for a string that is not a signed token,
   for a token whose MAC is not the HS256 MAC of its payload under the process
   secret, and for a token whose payload is not a Claims object *)
C2_ForeignRejected ==
    (probe.called /\ probe.token \in ForeignTokens) => probe.result = None

\* a token with a good MAC under another secret was presented inside its window
C2_Witness ==
    /\ probe.called
    /\ probe.token = SignedWith("HS256", OtherSecret, SerializeClaims(ForeignClaims))
    /\ probe.now = BootTime + 1
    /\ probe.result = None

----------------------------------------------------------------------------
(* Claims about the running system *)

\* the claims a token carries, read back from its payload
Decoded(token) == Unwrap(DeserializeClaims(token.payload))

\* the last step was a tick, and this is its response
Ticked == IsSome(tick_out.response)
TickResponse == Unwrap(tick_out.response)

\* token was minted by this process and now is strictly inside its window
InsideWindow(token, now) ==
    \E m \in minted : m.token = token /\ m.claims.iat < now /\ now < m.claims.exp

(* C3: a tick at time now with a token verify accepts at now returns a new token
   whose decoded claims have iat = now and exp = now + 3600, and the sub, email
   and name of the token presented *)
C3_RenewalResetsWindow ==
    (Ticked /\ IsSome(verify(tick_out.token, tick_out.now))) =>
        /\ TickResponse.status = "Ok"
        /\ LET new == Decoded(Unwrap(TickResponse.body).token)
               old == Decoded(tick_out.token)
           IN /\ new.iat = tick_out.now
              /\ new.exp = tick_out.now + 3600
              /\ new.sub = old.sub /\ new.email = old.email /\ new.name = old.name

\* a token with a name, issued earlier, has just been renewed
C3_Witness ==
    /\ Ticked /\ TickResponse.status = "Ok"
    /\ Decoded(tick_out.token).name = Some("b")
    /\ Decoded(tick_out.token).iat < tick_out.now
    /\ Decoded(Unwrap(TickResponse.body).token).iat = tick_out.now

\* the token presented to the last tick was minted by a login at this very time
RenewedAtIssueTime ==
    /\ Ticked
    /\ \E m \in minted : m.by = "login" /\ m.token = tick_out.token /\ m.at = tick_out.now

(* C4, as stated: a token issued by a login at clock time t and presented to the
   tick at the same clock time t yields a new token with iat = t and
   exp = t + 3600 and the same sub, email and name *)
C4_RenewAtIssueTimeSucceeds ==
    RenewedAtIssueTime =>
        /\ TickResponse.status = "Ok"
        /\ IsSome(TickResponse.body)
        /\ Decoded(Unwrap(TickResponse.body).token) =
             [Decoded(tick_out.token) EXCEPT !.iat = tick_out.now,
                                             !.exp = tick_out.now + 3600]

(* C4, amended: a token issued by a login at clock time t is refused (Forbidden,
   no token) by a tick at the same clock time t; a tick at a clock time t2 with
   t < t2 < t + 3600 yields a new token with iat = t2 and exp = t2 + 3600 and the
   same sub, email and name *)
C4_RenewAtIssueTimeRefused ==
    /\ RenewedAtIssueTime => TickResponse = Forbidden
    /\ \A m \in minted :
         (/\ Ticked /\ m.by = "login" /\ m.token = tick_out.token
          /\ m.at < tick_out.now /\ tick_out.now < m.at + 3600) =>
            /\ TickResponse.status = "Ok"
            /\ Decoded(Unwrap(TickResponse.body).token) =
                 [m.claims EXCEPT !.iat = tick_out.now, !.exp = tick_out.now + 3600]

\* a login's token has just been refused at the clock time it was issued
C4_Witness == RenewedAtIssueTime /\ TickResponse = Forbidden

\* why verify rejects the token of the last tick
RejectionCause ==
    IF ~tick_out.token.wf THEN "unparseable"
    ELSE IF tick_out.token.sig # Mac("HS256", SESSION_KEY, tick_out.token.payload)
         THEN "invalid MAC"
    ELSE IF tick_out.now <= Decoded(tick_out.token).iat THEN "now <= iat"
    ELSE IF tick_out.now >= Decoded(tick_out.token).exp THEN "now >= exp"
    ELSE "none"

(* C5: the tick returns a token exactly when the token presented is one of this
   process whose window contains the current time; whatever the cause of the
   rejection (unparseable, invalid MAC, now <= iat, now >= exp) no token is
   minted and the response is the same bare Forbidden *)
C5_RefusalIsUniform ==
    Ticked =>
        /\ (TickResponse.status = "Ok") <=> InsideWindow(tick_out.token, tick_out.now)
        /\ (TickResponse.status = "Ok") <=> (RejectionCause = "none")
        /\ (TickResponse.status = "Ok") <=>
             (\E m \in minted : m.by = "tick" /\ m.at = tick_out.now
                                /\ IsSome(TickResponse.body)
                                /\ m.token = Unwrap(TickResponse.body).token)
        /\ (RejectionCause # "none") => TickResponse = Forbidden

\* an expired token of this process has just been refused
C5_Witness ==
    /\ Ticked /\ RejectionCause = "now >= exp"
    /\ \E m \in minted : m.token = tick_out.token
    /\ TickResponse = Forbidden

\* the times at which token m is looked at: both ends of the inside of its
\* window, and the current time
WindowTimes(m) ==
    {now \in {m.claims.iat + 1, m.claims.exp - 1, clock} :
        m.claims.iat < now /\ now < m.claims.exp}

(* C6: whatever logins, renewals, logouts and key refreshes have happened since,
   a token minted by a login or a renewal is accepted by verify at every time
   inside its window, and a tick inside its window renews it *)
C6_NeverRevoked ==
    \A m \in minted :
        /\ \A now \in WindowTimes(m) : verify(m.token, now) = Some(m.claims)
        /\ (m.claims.iat < clock /\ clock < m.claims.exp) =>
              tick_handler(m.token).response.status = "Ok"

\* a login's token has been renewed, a user has just logged out, a key refresh
\* has been written, and the login's token is still inside its window
C6_Witness ==
    /\ IsSome(log_out)
    /\ IsSome(cache.expires_at)
    /\ \E m1, m2 \in minted :
         /\ m1.by = "login" /\ m2.by = "tick"
         /\ m2.claims.sub = m1.claims.sub
         /\ m1.claims.iat < clock /\ clock < m1.claims.exp
         /\ IsSome(verify(m1.token, clock))

(* C7: every token minted by the login handler or the tick handler carries
   iat = the clock value the handler read and exp = iat + 3600 *)
C7_WindowIsOneHour ==
    \A m \in minted :
        /\ Decoded(m.token).iat = m.at
        /\ Decoded(m.token).exp = Decoded(m.token).iat + 3600

\* a login and a later renewal have both minted a token
C7_Witness ==
    \E m1, m2 \in minted : m1.by = "login" /\ m2.by = "tick" /\ m1.at < m2.at

\* the errors refresh_google_keys returns
RefreshErrors ==
    {ServerError("reqwest send"), ServerError("reqwest json"), ServerError("from_rsa_components")}
UnknownKey == ServerError("Unable to find Google signing key for kid")

\* this step ends request r while it waits for its refresh: the refresh failed
RefreshFails(r) == req[r].pc = "fetch" /\ req'[r].pc = "done"

(* C8: a refresh that fails (the GET fails or times out, the body is not a key
   set, or a surviving entry has a malformed modulus or exponent) leaves the
   cached mapping and the deadline as they were: nothing partial is installed *)
C8_FailedRefreshKeepsCache ==
    [][\A r \in Reqs :
          RefreshFails(r) =>
             /\ Unwrap(login_out'.response) \in RefreshErrors
             /\ cache'.keys = cache.keys
             /\ cache'.expires_at = cache.expires_at]_vars

\* a refresh has just failed on a malformed key, and the key cached by an earlier
\* refresh is still there and still fresh
C8_Witness ==
    /\ login_out.response = Some(ServerError("from_rsa_components"))
    /\ cache.keys["k2"] = Some(KeyB)
    /\ is_fresh(cache)

(* C9, as stated: get_decoding_key hands a key to the verifier only if the cache
   was fresh (deadline present and strictly in the future) at the read that
   returned the key, the read after a refresh included *)
C9_KeyOnlyFromFreshCache ==
    \A r \in Reqs : (req[r].pc = "decode" /\ IsSome(req[r].key)) => req[r].read_fresh

(* C10: one verification sends at most one GET: a first lookup, on a miss one
   refresh, then one more lookup.  A failed refresh ends the request with the
   refresh's error without a second lookup; a second lookup that misses ends it
   with the unknown-signing-key error; in both cases no token is minted and no
   line is added to the login history *)
C10_OneRefreshNoLoop ==
    /\ [](\A r \in Reqs :
             /\ req[r].refreshes <= 1
             /\ req[r].pc \in {"new", "lookup1"} => req[r].refreshes = 0
             /\ req[r].pc \in {"fetch", "write_keys", "write_expiry", "lookup2"}
                   => req[r].refreshes = 1)
    /\ [][\A r \in Reqs :
            /\ RefreshFails(r) =>
                 /\ Unwrap(login_out'.response) \in RefreshErrors
                 /\ minted' = minted /\ login_history' = login_history
            /\ (req[r].pc = "lookup2" /\ req'[r].pc = "done") =>
                 /\ Unwrap(login_out'.response) = UnknownKey
                 /\ ~IsSome(cache.keys[req[r].kid])
                 /\ minted' = minted /\ login_history' = login_history
            /\ (req[r].pc # "done" /\ req'[r].pc = "done"
                /\ Unwrap(login_out'.response) = UnknownKey) =>
                 (req[r].pc = "lookup2" /\ req[r].refreshes = 1)]_vars

\* a request has just ended with the unknown-signing-key error after its one
\* refresh, while another key is cached
C10_Witness ==
    /\ login_out.response = Some(UnknownKey)
    /\ login_out.refreshes = 1
    /\ cache.keys # NoKeys

----------------------------------------------------------------------------
(* Claims about one refresh *)

\* the key-set entries the code accepts, and the mapping they stand for: each
\* kid maps to the key of the last accepted entry that carries it
Accepted(jwk) == jwk.kty = Some("RSA") /\ jwk.alg = Some("RS256")
AcceptedAt(jwks, kid) == {i \in 1..Len(jwks) : Accepted(jwks[i]) /\ jwks[i].kid = kid}
Last(S) == CHOOSE i \in S : \A j \in S : j <= i
ExpectedKeys(jwks) ==
    [kid \in Kids |->
        IF AcceptedAt(jwks, kid) = {} THEN None
        ELSE LET jwk == jwks[Last(AcceptedAt(jwks, kid))] IN Some(<<jwk.n, jwk.e>>)]

\* the response is a key set whose accepted entries all have a modulus and an
\* exponent that decode
Installable(resp) ==
    /\ resp.sent /\ IsSome(resp.body)
    /\ \A i \in 1..Len(Unwrap(resp.body)) :
          Accepted(Unwrap(resp.body)[i]) => Unwrap(resp.body)[i].n # "!"

\* this step is request r's write of the mapping, of the deadline
WritesKeys(r) == req[r].pc = "write_keys" /\ req'[r].pc = "write_expiry"
WritesExpiry(r) == req[r].pc = "write_expiry" /\ req'[r].pc = "lookup2"

(* C11: a refresh writes to the cache exactly the entries of the response whose
   key type is RSA and whose algorithm tag is RS256, keyed by kid; an entry with
   another or no key type or algorithm tag is not cached and, even when its
   modulus is malformed, does not make the refresh fail *)
C11_OnlyAcceptedKeysCached ==
    /\ [](\A r \in Reqs :
            req[r].pc \in {"write_expiry", "lookup2"} =>
               cache.keys = ExpectedKeys(Unwrap(probe.resp.body)))
    /\ [][\A r \in Reqs :
            /\ WritesKeys(r) => cache'.keys = ExpectedKeys(Unwrap(probe.resp.body))
            /\ (req[r].pc = "fetch" /\ req'[r].pc # "fetch" /\ Installable(probe.resp))
                  => req'[r].pc = "write_keys"]_vars

\* a refresh has installed the RS256 key of a response whose other entry has no
\* key type and a malformed modulus
C11_Witness ==
    /\ probe.resp.body = Some(<<Jwk("k2", None, Some("RS256"), "!", "AQAB"),
                                Jwk("k1", Some("RSA"), Some("RS256"), "nB", "AQAB")>>)
    /\ \E r \in Reqs : req[r].pc = "lookup2"
    /\ cache.keys = [NoKeys EXCEPT !["k1"] = Some(KeyB)]

\* 10 to the power k
RECURSIVE Pow10(_)
Pow10(k) == IF k = 0 THEN 1 ELSE 10 * Pow10(k - 1)
\* the sum of f[i] over i in 1..n
RECURSIVE SumTo(_, _)
SumTo(f, n) == IF n = 0 THEN 0 ELSE f[n] + SumTo(f, n - 1)

\* the part, white space around it aside, reads max-age=N with N a decimal
\* number (an optional plus sign, then digits only): Some(N), else None
MaxAgeOf(part) ==
    LET inked == {i \in 1..Len(part) : part[i] # " "}
        a == CHOOSE i \in inked : \A j \in inked : i <= j
        b == CHOOSE i \in inked : \A j \in inked : j <= i
        c == IF a < b /\ part[a + 1] = "+" THEN a + 2 ELSE a + 1
        n == b - c + 1
    IN IF inked = {} THEN None
       ELSE IF part[a] # "max-age=" \/ n < 1 THEN None
       ELSE IF \E i \in c..b : ~IsDigit(part[i]) THEN None
       ELSE Some(SumTo([i \in 1..n |-> DigitValue(part[c + i - 1]) * Pow10(n - i)], n))

\* the ttl the response asks for: the N of its first max-age=N directive, or
\* one hour when the Cache-Control header is absent, unreadable or has none
ExpectedTtl(headers) ==
    LET parts == Unwrap(headers).parts
        found == {i \in 1..Len(parts) : IsSome(MaxAgeOf(parts[i]))}
    IN IF ~IsSome(headers) THEN 3600
       ELSE IF ~Unwrap(headers).ascii \/ found = {} THEN 3600
       ELSE Unwrap(MaxAgeOf(parts[CHOOSE i \in found : \A j \in found : i <= j]))

(* C12: a refresh that installs its deadline at time T sets it to T + N when the
   response carries Cache-Control max-age=N with N a decimal number, and to
   T + 3600 when the header is absent or has no such directive.  With max-age=0
   the deadline is T itself: the cache is fresh at no later lookup, and the first
   lookup of the next verification misses and starts another refresh *)
C12_DeadlineFollowsMaxAge ==
    /\ [](ExpectedTtl(probe.resp.headers) = 0 => ~is_fresh(cache))
    /\ [][\A r \in Reqs :
            /\ WritesExpiry(r) =>
                 cache'.expires_at = Some(clock + ExpectedTtl(probe.resp.headers))
            /\ (req[r].pc = "lookup1" /\ req'[r].pc # "lookup1"
                /\ ExpectedTtl(probe.resp.headers) = 0) => req'[r].pc = "fetch"]_vars

\* a response with max-age=0 has been installed and served to one request, the
\* clock has not moved since, and the next request, whose kid is cached, has
\* missed and is fetching
C12_Witness ==
    /\ probe.resp.headers = CacheControl(<<<<"max-age=", "0">>>>)
    /\ cache.expires_at = Some(clock)
    /\ req[1].pc = "decode"
    /\ req[2].pc = "fetch" /\ IsSome(cache.keys[req[2].kid])

----------------------------------------------------------------------------
(* Claims about the login handler *)

\* the last step ended a login request, and this is its response
LoggedIn == IsSome(login_out.response)
LoginResponse == Unwrap(login_out.response)

\* the credential of the request the last step ended passes every check of the
\* handler: its header decodes and names a kid, a key was resolved for the kid,
\* the signature, algorithm, audience, issuer and expiry pass under that key,
\* the email is there and is not marked unverified
PassesEveryCheck ==
    /\ IsSome(login_out.cred)
    /\ LET cred == Unwrap(login_out.cred) IN
       /\ cred.wf /\ IsSome(cred.kid)
       /\ IsSome(login_out.key)
       /\ cred.alg = "RS256" /\ cred.signer = Unwrap(login_out.key)
       /\ cred.aud = GOOGLE_SSO_CLIENT_ID
       /\ cred.iss \in {"https://accounts.google.com", "accounts.google.com"}
       /\ cred.exp_ok
       /\ IsSome(cred.email)
       /\ cred.email_verified # Some(FALSE)

\* the credential of the request the last step ended has email_verified false,
\* or has no email
FailsPolicy ==
    /\ IsSome(login_out.cred)
    /\ \/ Unwrap(login_out.cred).email_verified = Some(FALSE)
       \/ ~IsSome(Unwrap(login_out.cred).email)

(* C13: the login handler mints or returns a session token only when a kid was
   read from the credential, a key was resolved for it, the signature,
   algorithm, audience and issuer checks passed, the email is present and
   email_verified is not false; a credential with email_verified false or with
   no email gets an error, no session token and no audit line *)
C13_TokenOnlyAfterEveryCheck ==
    /\ []((LoggedIn /\ LoginResponse.status = "Ok") => PassesEveryCheck)
    /\ []((LoggedIn /\ FailsPolicy) => LoginResponse.status = "Error")
    /\ [][/\ (LoggedIn' /\ minted' # minted) => PassesEveryCheck'
          /\ (LoggedIn' /\ login_history' # login_history) => PassesEveryCheck'
          /\ (LoggedIn' /\ FailsPolicy') =>
                (minted' = minted /\ login_history' = login_history)]_vars

\* a credential that passes every cryptographic check under the resolved key but
\* has email_verified false has just been refused, and nothing was minted or logged
C13_Witness ==
    /\ LoggedIn
    /\ login_out.cred = Some(Good("k1", KeyA, Some("a"), Some(FALSE), None))
    /\ login_out.key = Some(KeyA)
    /\ LoginResponse = ServerError("Google account email is not verified")
    /\ minted = {} /\ login_history = <<>>

(* C14: a login response carries a session token only if the audit line of that
   login was appended in the same request; when the append fails the handler
   answers with an error and the token it minted is not in the response; a line
   is appended only by a request that passed every check and minted its token *)
C14_NoTokenWithoutAuditLine ==
    [][LoggedIn' =>
         /\ (LoginResponse'.status = "Ok") =>
               /\ Len(login_history') = Len(login_history) + 1
               /\ login_history'[Len(login_history')].email =
                     Unwrap(Unwrap(LoginResponse'.body).email)
               /\ login_history'[Len(login_history')].timestamp = clock
         /\ (login_history' # login_history) =>
               /\ PassesEveryCheck'
               /\ \E m \in minted' :
                     m.by = "login" /\ m.at = clock
                     /\ m.claims.email = Unwrap(login_out'.cred).email
         /\ (LoginResponse'.err = "io") =>
               /\ LoginResponse'.status = "Error"
               /\ LoginResponse'.body = None
               /\ login_history' = login_history]_vars

\* the append to the login history has just failed: the request ended with an
\* error although its credential passed every check and its token was minted
C14_Witness ==
    /\ LoggedIn /\ LoginResponse = ServerError("io")
    /\ PassesEveryCheck
    /\ login_history = <<>>
    /\ \E m \in minted : m.by = "login" /\ m.at = clock

----------------------------------------------------------------------------
(* Claims about concurrent refreshes *)

\* this step is request r's second lookup
LooksUpAgain(r) == req[r].pc = "lookup2" /\ req'[r].pc # "lookup2"

\* the outcome of the second lookup is the one request r would get alone, from
\* the key set its own fetch returned
OutcomeAsIfAlone(r) ==
    /\ (req'[r].pc = "decode") <=> IsSome(req[r].keys[req[r].kid])
    /\ (req'[r].pc = "decode") => req'[r].key = req[r].keys[req[r].kid]

\* the cache after request r's write is, in full, what r's refresh built
LastWriteWins(r) ==
    cache' = [keys |-> req[r].keys, expires_at |-> Some(clock + req[r].ttl)]

(* C15, as stated: when several logins miss the cache and each runs its own
   refresh, then under every interleaving (1) each request's second lookup has
   the outcome it would have alone against the key set its own fetch returned,
   and (2) the cache after a refresh's write is in full the mapping and the
   deadline of that refresh *)
C15_ConcurrentRefreshesAgree ==
    [][\A r \in Reqs :
          /\ LooksUpAgain(r) => OutcomeAsIfAlone(r)
          /\ WritesExpiry(r) => LastWriteWins(r)]_vars

\* part (2) of C15 alone: it holds for every write that sets its deadline
C15_LastWriteWins == [][\A r \in Reqs : WritesExpiry(r) => LastWriteWins(r)]_vars

\* this step is a read or the start of a write of the cache by request q
TouchesCache(q) ==
    /\ req[q].pc \in {"lookup1", "lookup2", "write_keys"}
    /\ req'[q].pc # req[q].pc

\* this step ends request r's critical section: the lock it took for its write
\* is released, by the return of refresh_google_keys or by unwinding
Releases(r) == lock = Some(r) /\ lock' = None

(* C16, as stated: a refresh replaces the cache as a whole inside one critical
   section: from its write of the mapping until it releases the lock no other
   request reads or writes the cache, and when the lock is released the cache
   holds the new mapping together with the new deadline, never the new mapping
   with the old deadline or the old mapping with the new deadline; a kid cached
   before that is not in the new key set is gone *)
C16_WholesaleReplace ==
    /\ [](\A r \in Reqs : (lock = Some(r)) <=> (req[r].pc = "write_expiry"))
    /\ [][\A r \in Reqs :
            /\ TouchesCache(r) => lock = None
            /\ WritesKeys(r) =>
                 /\ lock' = Some(r)
                 /\ cache'.keys = req[r].keys
                 /\ \A kid \in Kids :
                       (IsSome(cache.keys[kid]) /\ ~IsSome(req[r].keys[kid]))
                          => ~IsSome(cache'.keys[kid])
            /\ Releases(r) => LastWriteWins(r)]_vars

\* C16 for the refreshes that reach their return at line 161 only: it holds
C16_CompletedRefreshReplaces ==
    /\ [](\A r \in Reqs : (lock = Some(r)) <=> (req[r].pc = "write_expiry"))
    /\ [][\A r \in Reqs :
            /\ TouchesCache(r) => lock = None
            /\ WritesKeys(r) => (lock' = Some(r) /\ cache'.keys = req[r].keys)
            /\ WritesExpiry(r) => (Releases(r) /\ LastWriteWins(r))]_vars

\* request r waits for the lock: its next step takes it, and it is held
WaitsForLock(r) == req[r].pc \in {"lookup1", "write_keys", "lookup2"} /\ lock # None

(* C17: no request holds the cache lock while its GET is in flight: the lock of
   the first lookup is released before the GET is sent and the lock of the
   write is taken after the keys are built.  The holder of the lock is always a
   request between its two writes, whose next step releases it; so a request
   whose kid is in a fresh cache is kept from its lookup by no fetch in flight,
   and never do all requests wait for the lock *)
C17_NoLockAcrossFetch ==
    /\ \A r \in Reqs :
         /\ req[r].pc = "fetch" => lock # Some(r)
         /\ lock = Some(r) => (req[r].pc = "write_expiry" /\ ENABLED WriteExpiry(r))
         /\ (/\ req[r].pc = "lookup1"
             /\ is_fresh(cache) /\ IsSome(cache.keys[req[r].kid])
             /\ \E q \in Reqs : req[q].pc = "fetch"
             /\ \A q \in Reqs : req[q].pc # "write_expiry") => ENABLED Lookup1(r)
    /\ ~(\A r \in Reqs : WaitsForLock(r))

\* one request is fetching while the other, whose kid is in the fresh cache, is
\* about to look it up
C17_Witness ==
    /\ req[1].pc = "fetch" /\ req[1].kid = "k2"
    /\ req[2].pc = "lookup1" /\ req[2].kid = "k1"
    /\ is_fresh(cache) /\ IsSome(cache.keys["k1"])
    /\ lock = None

\* the cache is stale: no deadline, or a deadline that is not in the future
Stale == ~IsSome(cache.expires_at) \/ Unwrap(cache.expires_at) <= clock

\* this step is request r's first lookup; this step sends request r's GET
LooksUpFirst(r) == req[r].pc = "lookup1" /\ req'[r].pc # "lookup1"
StartsFetch(r) == req[r].pc # "fetch" /\ req'[r].pc = "fetch"

(* C18: a verification sends the GET exactly when its first lookup misses, that
   is when the cache is stale or is fresh without the kid of the token, and at
   no other point; when the cache is fresh and holds the kid that key is
   returned without a GET, and mapping and deadline stay as they are *)
C18_FetchOnlyOnMiss ==
    [][\A r \in Reqs :
          /\ StartsFetch(r) => LooksUpFirst(r)
          /\ LooksUpFirst(r) =>
               /\ StartsFetch(r) <=> (Stale \/ ~IsSome(cache.keys[req[r].kid]))
               /\ StartsFetch(r) => req'[r].refreshes = req[r].refreshes + 1
               /\ (~Stale /\ IsSome(cache.keys[req[r].kid])) =>
                    /\ req'[r].pc = "decode"
                    /\ req'[r].key = cache.keys[req[r].kid]
                    /\ req'[r].refreshes = 0
               /\ cache' = cache /\ lock' = lock]_vars

\* one request has been served k1 from the fresh cache without a GET while the
\* other, whose kid the fresh cache does not hold, is fetching
C18_Witness ==
    /\ ~Stale /\ ~IsSome(cache.keys["k2"])
    /\ \E r, q \in Reqs :
         /\ req[r].pc = "decode" /\ req[r].key = Some(KeyA) /\ req[r].refreshes = 0
         /\ req[q].pc = "fetch" /\ req[q].kid = "k2"

----------------------------------------------------------------------------
(* Claims about the life of a session token *)

\* where token m is in its life at time now: 0 not yet valid, 1 valid, 2 expired
Phase(m, now) ==
    IF now <= m.claims.iat THEN 0 ELSE IF now < m.claims.exp THEN 1 ELSE 2

\* the current time and some later ones
LaterTimes == {clock + d : d \in {0, 1, 3599, 3600, 7200}}

(* C19: as long as the clock does not run backwards a session token is first not
   yet valid (now <= iat), then valid (iat < now < exp), then expired
   (now >= exp), and never goes back; verify accepts it in the valid phase only;
   once now >= exp it is rejected by verify and refused by the renewal at that
   and every later time, after whatever login, renewal, logout or key refresh *)
C19_ExpiredStaysExpired ==
    /\ [](\A m \in minted :
            /\ IsSome(verify(m.token, clock)) <=> (Phase(m, clock) = 1)
            /\ Phase(m, clock) = 2 =>
                 /\ \A now \in LaterTimes : verify(m.token, now) = None
                 /\ tick_handler(m.token).response = Forbidden)
    /\ []((Ticked /\ \E m \in minted : m.token = tick_out.token /\ Phase(m, tick_out.now) = 2)
             => TickResponse = Forbidden)
    /\ [][\A m \in minted :
            /\ m \in minted'
            /\ Phase(m, clock') >= Phase(m, clock)
            /\ Phase(m, clock) = 2 =>
                 /\ (verify(m.token, clock))' = None
                 /\ (tick_handler(m.token).response)' = Forbidden]_vars

\* a login's token was renewed while valid; now it is past its exp and has just
\* been refused, while the token its renewal produced is still valid
C19_Witness ==
    /\ Ticked /\ TickResponse = Forbidden
    /\ \E m1, m2 \in minted :
         /\ m1.by = "login" /\ m2.by = "tick"
         /\ m1.token = tick_out.token
         /\ m2.at < m1.claims.exp
         /\ clock > m1.claims.exp
         /\ Phase(m2, clock) = 1

\* the times at which token m is looked at after a restart: the inside of its
\* window at both ends, the current time, and times outside the window
ProbedTimes(m) ==
    {m.claims.iat, m.claims.iat + 1, m.claims.exp - 1, m.claims.exp, clock}

(* C20: the secret changes only when the process restarts, so every token of the
   running process instance is verified against the secret it was signed with;
   after a restart the secret is a new one, and a token of an earlier instance
   is rejected by verify at every time, inside its window included, and refused
   by the renewal *)
C20_SecretLivesWithProcess ==
    /\ [](\A m \in minted :
            /\ m.instance = instance =>
                 /\ m.token.sig = Mac("HS256", SESSION_KEY, m.token.payload)
                 /\ \A now \in WindowTimes(m) : verify(m.token, now) = Some(m.claims)
            /\ m.instance < instance =>
                 /\ \A now \in ProbedTimes(m) : verify(m.token, now) = None
                 /\ tick_handler(m.token).response = Forbidden)
    /\ []((Ticked /\ \E m \in minted : m.token = tick_out.token /\ m.instance < instance)
             => TickResponse = Forbidden)
    /\ [][/\ (instance' = instance) => (SESSION_KEY' = SESSION_KEY)
          /\ (instance' # instance) => (SESSION_KEY' # SESSION_KEY)]_vars

\* after a restart a token of the first instance has just been refused inside
\* its window, while a token of the new instance is accepted
C20_Witness ==
    /\ instance = 1
    /\ Ticked /\ TickResponse = Forbidden
    /\ \E m1, m2 \in minted :
         /\ m1.instance = 0 /\ m1.token = tick_out.token
         /\ m1.claims.iat < clock /\ clock < m1.claims.exp
         /\ m2.instance = 1 /\ m2.claims.iat < clock
         /\ verify(m2.token, clock) = Some(m2.claims)

====
